---- MODULE Spec2Model ----
(***************************************************************************)
(* joist-ts, packages/orm/src/QueryBuilder.ts: buildQuery compiles a       *)
(* where/orderBy/limit/offset specification over entity metadata into a    *)
(* knex query.  The model runs one buildQuery call: the recursion of       *)
(* addClauses is an explicit stack of activations, the forEach callback of *)
(* each activation is one step per key.                                    *)
(***************************************************************************)
EXTENDS Integers, Sequences, FiniteSets, TLC

(***************************************************************************)
(* JavaScript values, tagged by what typeof / Array.isArray / isEntity     *)
(* tell apart.  An object is its own enumerable keys in insertion order.   *)
(***************************************************************************)
Undef == [t |-> "undefined"]

Null == [t |-> "null"]

Str(s) == [t |-> "string", s |-> s]

Num(n) == [t |-> "number", n |-> n]

Arr(a) == [t |-> "array", a |-> a]

Ent(id) == [t |-> "entity", id |-> id]

Obj(kv) == [t |-> "object", kv |-> kv]

\* `typeof v === "object"`: null, arrays, entities and plain objects
TypeofObject(v) == v.t \in {"null", "array", "entity", "object"}

\* `if (v)`: undefined, null, 0 and "" are falsy
Truthy(v) ==
    CASE v.t \in {"undefined", "null"} -> FALSE
      [] v.t = "number" -> v.n # 0
      [] v.t = "string" -> v.s # ""
      [] OTHER -> TRUE

\* the index keys "0", "1", ... of arrays and strings
IndexKey == <<"0", "1", "2", "3">>

\* `s.length` of the strings that occur as values
StrLen(s) ==
    CASE s = "" -> 0
      [] s \in {"ASC", "a:1", "a:2"} -> 3
      [] s \in {"DESC", "Acme"} -> 4

\* Object.keys(v)
Keys(v) ==
    CASE v.t = "object" -> [i \in 1..Len(v.kv) |-> v.kv[i][1]]
      [] v.t = "array" -> [i \in 1..Len(v.a) |-> IndexKey[i]]
      [] v.t = "string" -> [i \in 1..StrLen(v.s) |-> IndexKey[i]]
      [] v.t = "entity" -> <<"__orm">>
      [] OTHER -> <<>>

Includes(seq, x) == \E i \in 1..Len(seq) : seq[i] = x

\* `key in v` for the own keys of an object
Has(v, key) == Includes(Keys(v), key)

\* `v[key]`: the value of an own key, undefined otherwise
Get(v, key) ==
    CASE v.t = "object" /\ Has(v, key) ->
             v.kv[CHOOSE i \in 1..Len(v.kv) : v.kv[i][1] = key][2]
      [] v.t = "entity" /\ key = "id" -> v.id
      [] OTHER -> Undef

\* `String(v)` of a value used as a property name
ToKey(v) == IF v.t = "string" THEN v.s ELSE v.t

(***************************************************************************)
(* Entity metadata, as getMetadata returns it: a table name (its           *)
(* characters, which abbreviation reads) and the column descriptors.  A    *)
(* column with a ForeignKeySerde names the entity of serde.otherMeta().    *)
(***************************************************************************)
Col(fieldName, columnName, otherMeta) ==
    [fieldName |-> fieldName, columnName |-> columnName, otherMeta |-> otherMeta]

Entities == {"Author", "Publisher", "Agent", "Account1099"}

Metas ==
    [e \in Entities |->
        CASE e = "Author" ->
                 [tableName |-> <<"a", "u", "t", "h", "o", "r", "s">>,
                  columns |-> << Col("id", "id", ""), Col("age", "age", ""),
                                 Col("publisher", "publisher_id", "Publisher"),
                                 Col("mentor", "mentor_id", "Author"),
                                 Col("agent", "agent_id", "Agent") >>]
          [] e = "Publisher" ->
                 [tableName |-> <<"p", "u", "b", "l", "i", "s", "h", "e", "r", "s">>,
                  columns |-> << Col("id", "id", ""), Col("name", "name", "") >>]
          [] e = "Agent" ->
                 [tableName |-> <<"a", "g", "e", "n", "t", "s">>,
                  columns |-> << Col("id", "id", ""), Col("name", "name", "") >>]
          [] e = "Account1099" ->
                 [tableName |-> <<"a", "c", "c", "o", "u", "n", "t", "s", "_",
                                  "1", "0", "9", "9">>,
                  columns |-> << Col("id", "id", ""),
                                 Col("owner", "owner_id", "Author") >>]]

NoColumn == Col("", "", "")

\* `meta.columns.find((c) => c.fieldName === key)`
FindColumn(meta, key) ==
    LET cols == Metas[meta].columns
        hits == {i \in 1..Len(cols) : cols[i].fieldName = key}
    IN  IF hits = {} THEN NoColumn
        ELSE cols[CHOOSE i \in hits : \A j \in hits : i <= j]

\* `column.serde instanceof ForeignKeySerde`
IsForeignKey(column) == column.otherMeta # ""

(***************************************************************************)
(* The alias allocator.                                                    *)
(***************************************************************************)
\* `tableName.split("_")`
RECURSIVE Split(_)
Split(chars) ==
    IF \A i \in 1..Len(chars) : chars[i] # "_" THEN << chars >>
    ELSE LET k == CHOOSE i \in 1..Len(chars) :
                      /\ chars[i] = "_"
                      /\ \A j \in 1..(i - 1) : chars[j] # "_"
         IN  << SubSeq(chars, 1, k - 1) >> \o Split(SubSeq(chars, k + 1, Len(chars)))

\* `.map((w) => w[0]).join("")`: an empty word gives undefined, joined as ""
RECURSIVE JoinFirsts(_)
JoinFirsts(words) ==
    IF words = << >> THEN << >>
    ELSE (IF Head(words) = << >> THEN << >> ELSE << Head(words)[1] >>)
         \o JoinFirsts(Tail(words))

abbreviation(tableName) == JoinFirsts(Split(tableName))

Digit == <<"0", "1", "2", "3", "4", "5", "6", "7", "8", "9">>

\* the decimal text of a number, as the template literal `${i}` gives it
RECURSIVE Decimal(_)
Decimal(i) ==
    IF i < 10 THEN << Digit[i + 1] >>
    ELSE Decimal(i \div 10) \o << Digit[(i % 10) + 1] >>

\* `aliases[abbrev] || 0`
AliasCount(registry, abbrev) ==
    IF abbrev \in DOMAIN registry THEN registry[abbrev] ELSE 0

\* getAlias: the alias `${abbrev}${i}` and the registry after `aliases[abbrev] = i + 1`
getAlias(registry, tableName) ==
    LET abbrev == abbreviation(tableName)
        i == AliasCount(registry, abbrev)
    IN  [alias |-> abbrev \o Decimal(i),
         aliases |-> [a \in (DOMAIN registry) \cup {abbrev} |->
                          IF a = abbrev THEN i + 1 ELSE registry[a]]]

(***************************************************************************)
(* The query under construction: what the knex builder has been told.      *)
(***************************************************************************)
\* `column.serde.mapToDb(v)`: the value codec, applied once per value
MapToDb(column, v) == [t |-> "db", column |-> column.columnName, of |-> v]

\* `clause.map((v) => column.serde.mapToDb(v))`
MapAllToDb(column, arr) == Arr([i \in 1..Len(arr.a) |-> MapToDb(column, arr.a[i])])

\* one where-call on `${alias}.${column.columnName}`
Pred(fn, alias, column, op, val) ==
    [fn |-> fn, alias |-> alias, column |-> column.columnName, op |-> op, val |-> val]

\* knex orderBy(column, direction): the direction defaults to ascending
OrderTerm(alias, columnName, direction) ==
    [alias |-> alias, column |-> columnName,
     direction |-> IF direction = Undef THEN "ASC" ELSE ToKey(direction)]

\* knex innerJoin(`${table} AS ${otherAlias}`, `${alias}.${column}`, `${otherAlias}.id`)
JoinTerm(tableName, otherAlias, alias, column) ==
    [table |-> tableName, alias |-> otherAlias,
     left |-> [alias |-> alias, column |-> column.columnName],
     right |-> [alias |-> otherAlias, column |-> "id"]]

\* what a clause function hands back: an error thrown, or the where-calls it made
Outcome(err, needsJoin, preds, mapped, op, value) ==
    [err |-> err, needsJoin |-> needsJoin, preds |-> preds, mapped |-> mapped,
     op |-> op, value |-> value]

Thrown(err) == Outcome(err, FALSE, << >>, << >>, "", Undef)

Added(needsJoin, preds, mapped) == Outcome("", needsJoin, preds, mapped, "", Undef)

operators == <<"eq", "gt", "gte", "ne", "lt", "lte", "like", "ilike", "in">>

\* property names every object inherits from Object.prototype
InheritedKeys == {"constructor", "toString"}

\* `opToFn[op]`: "" stands for undefined
opToFn(op) ==
    CASE op = "eq" -> "="
      [] op = "gt" -> ">"
      [] op = "gte" -> ">="
      [] op = "ne" -> "!="
      [] op = "lt" -> "<"
      [] op = "lte" -> "<="
      [] op = "like" -> "LIKE"
      [] op = "ilike" -> "ILIKE"
      [] op = "in" -> "..."
      [] op \in InheritedKeys -> "[Function]"
      [] OTHER -> ""

\* the values whose mapToDb is computed for an array
Elements(arr) == arr.a

\* addPrimitiveOperator with only `ne` treated specially for a null operand
addPrimitiveOperatorOnlyNe(alias, column, op, value) ==
    IF value.t \in {"null", "undefined"} THEN
        IF op = "ne" THEN
            Added(FALSE, << Pred("whereNotNull", alias, column, "", Undef) >>, << >>)
        ELSE Thrown("Only ne is supported when the value is undefined or null")
    ELSE IF op = "in" THEN
        IF value.t = "array" THEN
            Added(FALSE, << Pred("whereIn", alias, column, "", MapAllToDb(column, value)) >>,
                  Elements(value))
        ELSE Thrown("TypeError: value.map is not a function")
    ELSE IF opToFn(op) = "" THEN Thrown("Invalid operator")
    ELSE Added(FALSE,
               << Pred("where", alias, column, opToFn(op), MapToDb(column, value)) >>,
               << value >>)

addPrimitiveOperator(alias, column, op, value) ==
    IF value.t \in {"null", "undefined"} THEN
        IF op = "ne" THEN
            Added(FALSE, << Pred("whereNotNull", alias, column, "", Undef) >>, << >>)
        ELSE IF op = "eq" THEN
            Added(FALSE, << Pred("whereNull", alias, column, "", Undef) >>, << >>)
        ELSE Thrown("Only ne is supported when the value is undefined or null")
    ELSE IF op = "in" THEN
        IF value.t = "array" THEN
            Added(FALSE, << Pred("whereIn", alias, column, "", MapAllToDb(column, value)) >>,
                  Elements(value))
        ELSE Thrown("TypeError: value.map is not a function")
    ELSE IF opToFn(op) = "" THEN Thrown("Invalid operator")
    ELSE Added(FALSE,
               << Pred("where", alias, column, opToFn(op), MapToDb(column, value)) >>,
               << value >>)

\* the operator and value a clause function passed on to addPrimitiveOperator
Dispatched(op, value, out) == [out EXCEPT !.op = op, !.value = value]

addPrimitiveClause(alias, column, clause) ==
    IF /\ Truthy(clause) /\ TypeofObject(clause)
       /\ \E k \in 1..Len(operators) : Includes(Keys(clause), operators[k]) THEN
        LET op == Keys(clause)[1]
        IN  Dispatched(op, Get(clause, op),
                       addPrimitiveOperator(alias, column, op, Get(clause, op)))
    ELSE IF Truthy(clause) /\ TypeofObject(clause) /\ Has(clause, "op") THEN
        Dispatched(ToKey(Get(clause, "op")), Get(clause, "value"),
                   addPrimitiveOperator(alias, column, ToKey(Get(clause, "op")),
                                        Get(clause, "value")))
    ELSE IF clause.t = "array" THEN
        Added(FALSE, << Pred("whereIn", alias, column, "", MapAllToDb(column, clause)) >>,
              Elements(clause))
    ELSE IF clause = Null THEN
        Added(FALSE, << Pred("whereNull", alias, column, "", Undef) >>, << >>)
    ELSE IF clause = Undef THEN
        Added(FALSE, << >>, << >>)
    ELSE
        Added(FALSE, << Pred("where", alias, column, "=", MapToDb(column, clause)) >>,
              << clause >>)

\* addForeignKeyClause without the `{ id: ... }` shortcut: the object is a nested filter
addForeignKeyClauseNoIdShortcut(alias, column, clause) ==
    IF clause.t \in {"entity", "string", "array"} THEN
        IF clause.t = "entity" /\ clause.id = Undef THEN
            Added(FALSE, << Pred("where", alias, column, "=", Num(-1)) >>, << >>)
        ELSE IF clause.t = "array" THEN
            Added(FALSE, << Pred("whereIn", alias, column, "", MapAllToDb(column, clause)) >>,
                  Elements(clause))
        ELSE
            Added(FALSE, << Pred("where", alias, column, "=", MapToDb(column, clause)) >>,
                  << clause >>)
    ELSE IF clause = Null \/ clause = Undef THEN
        Added(FALSE, << Pred("whereNull", alias, column, "", Undef) >>, << >>)
    ELSE Added(clause # Undef, << >>, << >>)

\* addForeignKeyClause without the unsaved-entity test: every entity goes to mapToDb
addForeignKeyClauseNoSentinel(alias, column, clause) ==
    IF clause.t = "array" THEN
        Added(FALSE, << Pred("whereIn", alias, column, "", MapAllToDb(column, clause)) >>,
              Elements(clause))
    ELSE IF clause.t \in {"entity", "string"} THEN
        Added(FALSE, << Pred("where", alias, column, "=", MapToDb(column, clause)) >>,
              << clause >>)
    ELSE IF clause = Null \/ clause = Undef THEN
        Added(FALSE, << Pred("whereNull", alias, column, "", Undef) >>, << >>)
    ELSE Added(clause # Undef, << >>, << >>)

addForeignKeyClause(alias, column, clause) ==
    LET clauseKeys == IF TypeofObject(clause) /\ clause # Null THEN Keys(clause) ELSE << >>
    IN  IF clause.t \in {"entity", "string", "array"} THEN
            IF clause.t = "entity" /\ clause.id = Undef THEN
                Added(FALSE, << Pred("where", alias, column, "=", Num(-1)) >>, << >>)
            ELSE IF clause.t = "array" THEN
                Added(FALSE,
                      << Pred("whereIn", alias, column, "", MapAllToDb(column, clause)) >>,
                      Elements(clause))
            ELSE
                Added(FALSE,
                      << Pred("where", alias, column, "=", MapToDb(column, clause)) >>,
                      << clause >>)
        ELSE IF clause = Null \/ clause = Undef THEN
            Added(FALSE, << Pred("whereNull", alias, column, "", Undef) >>, << >>)
        ELSE IF Len(clauseKeys) = 1 /\ clauseKeys[1] = "id" THEN
            LET value == Get(clause, "id")
            IN  IF value.t = "array" THEN
                    Added(FALSE,
                          << Pred("whereIn", alias, column, "", MapAllToDb(column, value)) >>,
                          Elements(value))
                ELSE
                    Added(FALSE,
                          << Pred("where", alias, column, "=", MapToDb(column, value)) >>,
                          << value >>)
        ELSE IF Len(clauseKeys) = 1 /\ clauseKeys[1] = "ne" THEN
            LET value == Get(clause, "ne")
            IN  IF value = Null \/ value = Undef THEN
                    Added(FALSE, << Pred("whereNotNull", alias, column, "", Undef) >>, << >>)
                ELSE IF value.t = "string" THEN
                    Added(FALSE,
                          << Pred("whereNot", alias, column, "", MapToDb(column, value)) >>,
                          << value >>)
                ELSE Thrown("Not implemented")
        ELSE Added(clause # Undef, << >>, << >>)

(***************************************************************************)
(* The arguments buildQuery is run on.  Each family varies one part of the *)
(* specification over all its shapes and keeps the rest small.             *)
(***************************************************************************)
\* the deepest chain of mentor filters
MaxChain == 10

\* a cap on the addClauses activations, above what MaxChain can nest
MaxStack == MaxChain + 4

Obj1(k, v) == Obj(<< <<k, v>> >>)

Obj2(k1, v1, k2, v2) == Obj(<< <<k1, v1>>, <<k2, v2>> >>)

Range(seq) == {seq[i] : i \in 1..Len(seq)}

Ids == Arr(<< Str("a:1"), Str("a:2") >>)

\* clause values of a primitive field
BareClauses == {Null, Undef, Num(30), Num(0), Str("Acme"), Arr(<< Num(1), Num(2) >>),
                Obj(<< >>), Obj1("foo", Num(1))}

NamedClauses ==
    {Obj1(o, v) : o \in Range(operators),
                  v \in {Null, Undef, Num(30), Arr(<< Num(1), Num(2) >>)}}

OpValueClauses ==
    {Obj2("op", Str(o), "value", v) : o \in Range(operators) \cup {"bogus"},
                                      v \in {Null, Num(30)}}
    \cup {Obj1("op", Str("gt")), Obj2("value", Num(30), "op", Str("lt"))}

MixedClauses ==
    UNION {{Obj2(x, xv, o, Num(30)), Obj2(o, Num(30), x, xv)} :
              <<x, xv, o>> \in {"foo", "constructor", "op"} \X {Num(1), Null}
                               \X {"gt", "eq", "ne"}}

PrimitiveClauses == BareClauses \cup NamedClauses \cup OpValueClauses \cup MixedClauses

\* clause values of a foreign-key field
ForeignKeyClauses ==
    {Str("a:1"), Ids, Arr(<< >>), Ent(Str("a:1")), Ent(Undef), Null, Undef, Num(7),
     Obj1("id", Str("a:1")), Obj1("id", Ids), Obj1("id", Ent(Str("a:1"))),
     Obj1("ne", Null), Obj1("ne", Undef), Obj1("ne", Str("a:1")),
     Obj1("ne", Ent(Str("a:1"))), Obj1("ne", Num(7)),
     Obj(<< >>), Obj1("name", Str("Acme")), Obj1("age", Obj1("gt", Num(30))),
     Obj2("id", Str("a:1"), "name", Str("Acme")), Obj1("bogus", Num(1)),
     Obj1("mentor", Obj1("id", Str("a:2")))}

Input(type, where, orderBy, limit, offset) ==
    [type |-> type, where |-> where, orderBy |-> orderBy, limit |-> limit,
     offset |-> offset]

\* one primitive field under every clause shape
PrimitiveInputs ==
    {Input("Author", Obj1("age", c), o, Undef, Undef) :
        c \in PrimitiveClauses, o \in {Undef, Obj1("age", Str("DESC"))}}

\* one foreign-key field under every clause shape
ForeignKeyInputs ==
    {Input("Author", Obj1(f, c), o, Undef, Undef) :
        f \in {"publisher", "mentor", "agent"}, c \in ForeignKeyClauses,
        o \in {Undef, Obj1("publisher", Obj1("name", Str("ASC")))}}

\* a few clauses per field of Author, for specifications of up to two keys
SomeClauses(f) ==
    CASE f = "age" -> {Obj1("gt", Num(30)), Num(30)}
      [] f = "publisher" -> {Obj1("name", Str("Acme")), Str("a:1")}
      [] f = "mentor" -> {Obj1("age", Num(30)), Ent(Undef)}
      [] f = "agent" -> {Obj1("name", Str("Acme")), Obj1("id", Ids)}
      [] OTHER -> {Num(1)}

SomeFields == {"age", "publisher", "mentor", "agent", "bogus"}

SomeWheres ==
    {Undef, Obj(<< >>)}
    \cup UNION {{Obj1(f, c) : c \in SomeClauses(f)} : f \in SomeFields}
    \cup UNION {{Obj2(f, c, g, d) : c \in SomeClauses(f), d \in SomeClauses(g)} :
                   <<f, g>> \in {p \in SomeFields \X SomeFields : p[1] # p[2]}}

SomeOrders ==
    {Undef, Obj1("age", Str("DESC")), Obj1("age", Str("ASC")), Obj1("age", Undef),
     Obj1("publisher", Obj1("name", Str("ASC"))),
     Obj1("mentor", Obj1("age", Str("DESC"))),
     Obj2("age", Str("DESC"), "publisher", Obj1("name", Str("ASC"))),
     Obj2("agent", Obj1("name", Str("ASC")), "mentor", Obj1("mentor", Obj1("age", Str("ASC")))),
     Obj1("publisher", Str("ASC")), Obj1("bogus", Str("ASC"))}

TwoKeyInputs ==
    {Input("Author", w, o, Undef, Undef) : w \in SomeWheres, o \in SomeOrders}

\* k mentor filters nested around a leaf: the self-referencing foreign key
RECURSIVE Chain(_, _)
Chain(k, leaf) == IF k = 0 THEN leaf ELSE Obj1("mentor", Chain(k - 1, leaf))

ChainLeaves == {Obj(<< >>), Obj1("age", Num(30)), Obj1("bogus", Num(1))}

ChainInputs ==
    {Input("Author", Chain(k, leaf), o, Undef, Undef) :
        k \in 0..MaxChain, leaf \in ChainLeaves, o \in {Undef, Obj1("age", Str("ASC"))}}
    \cup {Input("Account1099", Obj1("owner", Chain(k, leaf)), Undef, Undef, Undef) :
             k \in 0..MaxChain, leaf \in ChainLeaves}

\* the other entities as the base table
OtherBaseInputs ==
    {Input(e, w, o, Undef, Undef) :
        e \in {"Publisher", "Agent"},
        w \in {Obj(<< >>), Obj1("name", Str("Acme")), Obj1("name", Obj1("like", Str("Acme")))},
        o \in {Undef, Obj1("name", Str("DESC"))}}

\* the pagination settings
PageInputs ==
    {Input("Author", w, o, l, f) :
        w \in {Obj(<< >>), Obj1("age", Num(30))},
        o \in {Undef, Obj1("age", Str("DESC"))},
        l \in {Undef, Num(0), Num(1), Num(25)},
        f \in {Undef, Num(0), Num(50)}}

Inputs ==
    PrimitiveInputs \cup ForeignKeyInputs \cup TwoKeyInputs \cup ChainInputs
    \cup OtherBaseInputs \cup PageInputs

(***************************************************************************)
(* One buildQuery call.                                                    *)
(*   filter   the arguments: type, where, orderBy, limit, offset           *)
(*   status   "init", "clauses" (inside addClauses), "done" (returned),    *)
(*            "failed" (an error left buildQuery)                          *)
(*   aliases  the registry of getAlias                                     *)
(*   query    the knex builder                                             *)
(*   stack    the activations of addClauses, the innermost last; each is   *)
(*            its arguments, its `keys` and the position of its forEach    *)
(*   result   what buildQuery returned; error: what it threw               *)
(*   issued   every alias getAlias returned, in order                      *)
(*   mapped   every value handed to serde.mapToDb, in order                *)
(*   last     what the latest forEach callback saw and did                 *)
(***************************************************************************)
VARIABLES filter, status, aliases, query, stack, result, error, issued, mapped, last

vars == <<filter, status, aliases, query, stack, result, error, issued, mapped, last>>

\* the default row limit imported from EntityManager
entityLimit == 10000

\* an activation of addClauses: `keys` is computed on entry
Frame(meta, alias, where, orderBy) ==
    [meta |-> meta, alias |-> alias, where |-> where, orderBy |-> orderBy,
     keys |-> (IF Truthy(where) THEN Keys(where) ELSE << >>)
              \o (IF Truthy(orderBy) THEN Keys(orderBy) ELSE << >>),
     i |-> 1]

Visit(kind, key, column, clause, hasClause, order, joined, out) ==
    [kind |-> kind, meta |-> stack[Len(stack)].meta, alias |-> stack[Len(stack)].alias,
     key |-> key, column |-> column.columnName, clause |-> clause,
     hasClause |-> hasClause, order |-> order, joined |-> joined, out |-> out]

NoVisit ==
    [kind |-> "none", meta |-> "", alias |-> << >>, key |-> "", column |-> "",
     clause |-> Undef, hasClause |-> FALSE, order |-> Undef, joined |-> FALSE,
     out |-> Added(FALSE, << >>, << >>)]

Top == stack[Len(stack)]

\* the forEach of the innermost activation has a key left
Pending == status = "clauses" /\ Top.i <= Len(Top.keys)

CurKey == Top.keys[Top.i]

CurColumn == FindColumn(Top.meta, CurKey)

\* `where && (where as any)[key]`
CurClause == IF Truthy(Top.where) THEN Get(Top.where, CurKey) ELSE Top.where

\* `key in where` throws a TypeError when where is a truthy primitive
InThrows == Truthy(Top.where) /\ ~TypeofObject(Top.where)

\* `where && key in where`
HasClause == Truthy(Top.where) /\ Has(Top.where, CurKey)

\* `orderBy && (orderBy as any)[key]`
CurOrder == IF Truthy(Top.orderBy) THEN Get(Top.orderBy, CurKey) ELSE Top.orderBy

\* `!!order`
HasOrder == Truthy(CurOrder)

\* the where-calls of the callback for the current key
CurOutcome ==
    IF ~HasClause THEN Added(FALSE, << >>, << >>)
    ELSE IF IsForeignKey(CurColumn) THEN addForeignKeyClause(Top.alias, CurColumn, CurClause)
    ELSE addPrimitiveClause(Top.alias, CurColumn, CurClause)

\* a recursive call that is handed the whole where of its caller
ChildWhereWhole(where, clause, whereNeedsJoin) == IF whereNeedsJoin THEN where ELSE Undef

\* the where argument of the recursive call
ChildWhere(where, clause, whereNeedsJoin) == IF whereNeedsJoin THEN clause ELSE Undef

\* the orderBy argument of the recursive call
ChildOrder(orderBy, order, hasOrder) == IF hasOrder THEN order ELSE Undef

\* the id order added only when the user gave no order
OrderByIdIfNone(orders, alias) ==
    IF orders = << >> THEN Append(orders, OrderTerm(alias, "id", Undef)) ELSE orders

\* `query.orderBy(`${alias}.id`)` at the tail
OrderById(orders, alias) == Append(orders, OrderTerm(alias, "id", Undef))

\* `limit || entityLimit`
LimitOf(limit) == IF Truthy(limit) THEN limit ELSE Num(entityLimit)

Advance == [stack EXCEPT ![Len(stack)].i = @ + 1]

\* an error that is swallowed: the forEach goes on with the next key
Swallow(err) ==
    /\ status' = status
    /\ error' = err
    /\ stack' = Advance
    /\ UNCHANGED <<filter, aliases, query, result, issued>>

\* an error leaves buildQuery: every activation is unwound, nothing is returned
Throw(err) ==
    /\ status' = "failed"
    /\ error' = err
    /\ stack' = << >>
    /\ UNCHANGED <<filter, aliases, query, result, issued>>

\* buildQuery up to its call of addClauses
Start ==
    /\ status = "init"
    /\ LET meta == Metas[filter.type]
           a == getAlias(aliases, meta.tableName)
       IN  /\ aliases' = a.aliases
           /\ issued' = Append(issued, a.alias)
           /\ query' = [table |-> meta.tableName, alias |-> a.alias, joins |-> << >>,
                        wheres |-> << >>, orders |-> << >>, limit |-> Undef,
                        offset |-> Undef]
           /\ stack' = << Frame(filter.type, a.alias, filter.where, filter.orderBy) >>
    /\ status' = "clauses"
    /\ UNCHANGED <<filter, result, error, mapped, last>>

\* the callback finds no column for the key
KeyNotFound ==
    /\ Pending
    /\ CurColumn = NoColumn
    /\ last' = Visit("notfound", CurKey, NoColumn, Undef, FALSE, Undef, FALSE,
                     Thrown("not found"))
    /\ Throw("not found")
    /\ UNCHANGED mapped

\* the callback evaluates `key in where` on a primitive
InOperatorThrows ==
    /\ Pending
    /\ CurColumn # NoColumn
    /\ InThrows
    /\ last' = Visit("in", CurKey, CurColumn, CurClause, FALSE, Undef, FALSE,
                     Thrown("TypeError: cannot use in"))
    /\ Throw("TypeError: cannot use in")
    /\ UNCHANGED mapped

\* addForeignKeyClause or addPrimitiveClause throws
ClauseThrows ==
    /\ Pending
    /\ CurColumn # NoColumn
    /\ ~InThrows
    /\ CurOutcome.err # ""
    /\ last' = Visit(IF IsForeignKey(CurColumn) THEN "fk" ELSE "prim", CurKey, CurColumn,
                     CurClause, HasClause, CurOrder, FALSE, CurOutcome)
    /\ Throw(CurOutcome.err)
    /\ UNCHANGED mapped

\* a foreign-key column that needs no join
ForeignKeyNoJoin ==
    /\ Pending
    /\ CurColumn # NoColumn /\ IsForeignKey(CurColumn)
    /\ ~InThrows
    /\ CurOutcome.err = ""
    /\ ~(CurOutcome.needsJoin \/ HasOrder)
    /\ query' = [query EXCEPT !.wheres = @ \o CurOutcome.preds]
    /\ mapped' = mapped \o CurOutcome.mapped
    /\ stack' = Advance
    /\ last' = Visit("fk", CurKey, CurColumn, CurClause, HasClause, CurOrder, FALSE,
                     CurOutcome)
    /\ UNCHANGED <<filter, status, aliases, result, error, issued>>

\* a foreign-key column that is joined: the join, then the recursive call
ForeignKeyJoin ==
    /\ Pending
    /\ CurColumn # NoColumn /\ IsForeignKey(CurColumn)
    /\ ~InThrows
    /\ CurOutcome.err = ""
    /\ CurOutcome.needsJoin \/ HasOrder
    /\ Len(stack) < MaxStack
    /\ LET otherMeta == CurColumn.otherMeta
           a == getAlias(aliases, Metas[otherMeta].tableName)
       IN  /\ aliases' = a.aliases
           /\ issued' = Append(issued, a.alias)
           /\ query' = [query EXCEPT
                           !.wheres = @ \o CurOutcome.preds,
                           !.joins = Append(@, JoinTerm(Metas[otherMeta].tableName, a.alias,
                                                        Top.alias, CurColumn))]
           /\ stack' = Append(Advance,
                              Frame(otherMeta, a.alias,
                                    ChildWhere(Top.where, CurClause, CurOutcome.needsJoin),
                                    ChildOrder(Top.orderBy, CurOrder, HasOrder)))
    /\ mapped' = mapped \o CurOutcome.mapped
    /\ last' = Visit("fk", CurKey, CurColumn, CurClause, HasClause, CurOrder, TRUE,
                     CurOutcome)
    /\ UNCHANGED <<filter, status, result, error>>

\* a primitive column: its predicate, then its order term
PrimitiveKey ==
    /\ Pending
    /\ CurColumn # NoColumn /\ ~IsForeignKey(CurColumn)
    /\ ~InThrows
    /\ CurOutcome.err = ""
    /\ query' = [query EXCEPT
                    !.wheres = @ \o CurOutcome.preds,
                    !.orders = IF HasOrder
                               THEN Append(@, OrderTerm(Top.alias, CurColumn.columnName,
                                                        CurOrder))
                               ELSE @]
    /\ mapped' = mapped \o CurOutcome.mapped
    /\ stack' = Advance
    /\ last' = Visit("prim", CurKey, CurColumn, CurClause, HasClause, CurOrder, FALSE,
                     CurOutcome)
    /\ UNCHANGED <<filter, status, aliases, result, error, issued>>

\* a recursive addClauses call returns to the callback that made it
Return ==
    /\ status = "clauses"
    /\ Len(stack) > 1
    /\ Top.i > Len(Top.keys)
    /\ stack' = SubSeq(stack, 1, Len(stack) - 1)
    /\ UNCHANGED <<filter, status, aliases, query, result, error, issued, mapped, last>>

\* the root addClauses call has returned: the tail of buildQuery
Finish ==
    /\ status = "clauses"
    /\ Len(stack) = 1
    /\ Top.i > Len(Top.keys)
    /\ query' = [query EXCEPT
                    !.orders = OrderById(@, query.alias),
                    !.limit = LimitOf(filter.limit),
                    !.offset = IF Truthy(filter.offset) THEN filter.offset ELSE @]
    /\ result' = query'
    /\ status' = "done"
    /\ stack' = << >>
    /\ UNCHANGED <<filter, aliases, error, issued, mapped, last>>

Next ==
    \/ Start
    \/ KeyNotFound
    \/ InOperatorThrows
    \/ ClauseThrows
    \/ ForeignKeyNoJoin
    \/ ForeignKeyJoin
    \/ PrimitiveKey
    \/ Return
    \/ Finish

Init ==
    /\ filter \in Inputs
    /\ status = "init"
    /\ aliases = [a \in {} |-> 0]
    /\ query = Undef
    /\ stack = << >>
    /\ result = Undef
    /\ error = ""
    /\ issued = << >>
    /\ mapped = << >>
    /\ last = NoVisit

Spec == Init /\ [][Next]_vars

\* buildQuery is synchronous: once called it runs until it returns or throws
LiveSpec == Spec /\ WF_vars(Next)

(***************************************************************************)
(* Properties.  Each is stated on the arguments and on what the query      *)
(* builder was told, not on the helpers above.                             *)
(***************************************************************************)
Running == status = "clauses" /\ stack # << >> /\ Top.i <= Len(Top.keys)

Columns == Metas[Top.meta].columns

\* the current key names a column of the current entity, of the given kind
KnownForeignKey ==
    \E c \in 1..Len(Columns) : Columns[c].fieldName = CurKey /\ Columns[c].otherMeta # ""

KnownPrimitive ==
    \E c \in 1..Len(Columns) : Columns[c].fieldName = CurKey /\ Columns[c].otherMeta = ""

UnknownKey == \A c \in 1..Len(Columns) : Columns[c].fieldName # CurKey

\* the storage column of the current key
ColumnNameOf(key) ==
    Columns[CHOOSE c \in 1..Len(Columns) : Columns[c].fieldName = key].columnName

\* the where of the current scope gives the current key a clause
Filtered == Top.where.t = "object" /\ \E k \in 1..Len(Top.where.kv) : Top.where.kv[k][1] = CurKey

FilterClause == Top.where.kv[CHOOSE k \in 1..Len(Top.where.kv) : Top.where.kv[k][1] = CurKey][2]

\* the orderBy of the current scope gives the current key an order
Ordered ==
    /\ Top.orderBy.t = "object"
    /\ \E k \in 1..Len(Top.orderBy.kv) :
          Top.orderBy.kv[k][1] = CurKey /\ Top.orderBy.kv[k][2] # Undef

OperatorKeys(c) == {k \in 1..Len(c.kv) : c.kv[k][1] \in Range(operators)}

\* C1: when buildQuery returns, the last order term of the query is the id
\* column of the base alias, ascending, whatever orders the user gave.
C1_TailOrderIsBaseId ==
    status = "done" =>
        /\ Len(result.orders) >= 1
        /\ result.orders[Len(result.orders)]
               = [alias |-> issued[1], column |-> "id", direction |-> "ASC"]

\* a returned query with a join and user orders before the tail term
C1_Witness ==
    /\ status = "done"
    /\ Len(result.joins) >= 1
    /\ Len(result.orders) >= 3
    /\ result.orders[1].direction = "DESC"

\* C2: the aliases handed out in one buildQuery call are pairwise distinct,
\* one for the base table and one per join.
C2_AliasesDistinct ==
    /\ \A i, j \in 1..Len(issued) : i # j => issued[i] # issued[j]
    /\ status \in {"clauses", "done"} => Len(issued) = Len(query.joins) + 1

Count(seq, x) == Cardinality({i \in 1..Len(seq) : seq[i] = x})

ScenarioInput ==
    Input("Author",
          Obj2("age", Obj1("gt", Num(30)), "publisher", Obj1("name", Str("Acme"))),
          Obj1("age", Str("DESC")), Undef, Undef)

\* C3: in every scope the fields compiled are the union of the where keys
\* and the order-by keys, each once; the Author/Publisher scenario compiles
\* to one `age > 30` predicate, one join and the orders age DESC, id ASC.
C3_EachFieldOnce ==
    /\ \A n \in 1..Len(stack) :
          \A i, j \in 1..Len(stack[n].keys) :
              i # j => stack[n].keys[i] # stack[n].keys[j]
    /\ (status = "done" /\ filter = ScenarioInput) =>
          /\ Count([k \in 1..Len(result.wheres) |-> result.wheres[k].column], "age") = 1
          /\ Len(result.joins) = 1
          /\ Len(result.orders) = 2

IdShaped(c) ==
    \/ c.t \in {"string", "array", "entity", "null"}
    \/ c.t = "object" /\ Len(c.kv) = 1 /\ c.kv[1][1] = "id"
                      /\ c.kv[1][2].t \in {"string", "array"}

\* C4: a callback that filters a foreign-key field by an identifier, an
\* array, an entity, null or { id: ... } adds exactly one predicate, on the
\* key column of the current alias; addForeignKeyClause asks for no join,
\* and a join is added only when the field also has an order.  A returned
\* query whose only key is such a filter has no join at all.
C4_IdFilterNeedsNoJoin ==
    /\ [][(Running /\ KnownForeignKey /\ Filtered /\ IdShaped(FilterClause)) =>
          /\ status' = "clauses"
          /\ Len(query'.wheres) = Len(query.wheres) + 1
          /\ query'.wheres[Len(query'.wheres)].alias = Top.alias
          /\ query'.wheres[Len(query'.wheres)].column = ColumnNameOf(CurKey)
          /\ last'.out.needsJoin = FALSE
          /\ Len(query'.joins) = Len(query.joins) + (IF Ordered THEN 1 ELSE 0)
          /\ Len(issued') = Len(issued) + (IF Ordered THEN 1 ELSE 0)]_vars
    /\ [](/\ status = "done"
          /\ filter.type = "Author"
          /\ filter.orderBy = Undef
          /\ filter.where.t = "object" /\ Len(filter.where.kv) = 1
          /\ filter.where.kv[1][1] \in {"publisher", "mentor", "agent"}
          /\ IdShaped(filter.where.kv[1][2])
          => (result.joins = << >> /\ Len(result.wheres) = 1 /\ Len(issued) = 1))

\* { id: [ids] } on a foreign key was compiled without a join
C4_Witness ==
    /\ last.kind = "fk"
    /\ last.hasClause
    /\ last.clause = Obj1("id", Ids)
    /\ ~last.joined
    /\ query.joins = << >>
    /\ Len(query.wheres) = 1

\* C5: the returned query has the user's limit when one is given and
\* entityLimit when none is; it has an offset exactly when a non-zero
\* offset is given.
C5_Pagination ==
    status = "done" =>
        /\ result.limit = (IF filter.limit # Undef THEN filter.limit ELSE Num(entityLimit))
        /\ (result.offset # Undef) <=> (filter.offset # Undef /\ filter.offset # Num(0))

NullOperand(v) == v = Null \/ v = Undef

\* a clause of a foreign key that addForeignKeyClause does not implement
UnsupportedNe(c) ==
    /\ c.t = "object" /\ Len(c.kv) = 1 /\ c.kv[1][1] = "ne"
    /\ c.kv[1][2].t \notin {"null", "undefined", "string"}

\* an operator other than eq and ne with a null operand, in either form
NullComparison(c) ==
    /\ c.t = "object"
    /\ \/ /\ Len(c.kv) = 1
          /\ c.kv[1][1] \in Range(operators) \ {"eq", "ne"}
          /\ NullOperand(c.kv[1][2])
       \/ /\ OperatorKeys(c) = {}
          /\ Has(c, "op")
          /\ Get(c, "op").t = "string"
          /\ Get(c, "op").s \in Range(operators) \ {"eq", "ne"}
          /\ NullOperand(Get(c, "value"))

Fatal ==
    /\ Running
    /\ \/ UnknownKey
       \/ KnownForeignKey /\ Filtered /\ UnsupportedNe(FilterClause)
       \/ KnownPrimitive /\ Filtered /\ NullComparison(FilterClause)

\* C6: a fatal error at any depth leaves buildQuery at once: the callback
\* that meets it is the last step, the query is not touched again, the tail
\* is not run and nothing is returned.
C6_FatalErrorAborts ==
    /\ [][Fatal => (status' = "failed" /\ result' = Undef /\ query' = query)]_vars
    /\ [][status # "failed"]_vars
    /\ [](status = "failed" => (result = Undef /\ query.limit = Undef /\ error # ""))

\* an unknown key met after a join and a predicate had been added
C6_Witness ==
    /\ status = "failed"
    /\ error = "not found"
    /\ Len(query.joins) >= 1
    /\ Len(query.wheres) >= 1
    /\ result = Undef

\* C7: a callback that filters a foreign-key field by an entity without an
\* id does not fail: it adds the one predicate `column = -1` on the current
\* alias, hands nothing to mapToDb, and joins only when the field has an order.
C7_UnsavedEntitySentinel ==
    [][(Running /\ KnownForeignKey /\ Filtered /\ FilterClause = Ent(Undef)) =>
          /\ status' = "clauses"
          /\ query'.wheres
                 = Append(query.wheres,
                          [fn |-> "where", alias |-> Top.alias,
                           column |-> ColumnNameOf(CurKey), op |-> "=", val |-> Num(-1)])
          /\ mapped' = mapped
          /\ Len(query'.joins) = Len(query.joins) + (IF Ordered THEN 1 ELSE 0)]_vars

\* an unsaved entity was compiled and the query went on to be returned
C7_Witness ==
    /\ status = "done"
    /\ last.kind = "fk"
    /\ last.clause = Ent(Undef)
    /\ last.hasClause
    /\ result.joins = << >>
    /\ Len(result.wheres) >= 1
    /\ result.wheres[Len(result.wheres)].val = Num(-1)

\* the operator and operand of an operator clause, in either form
IsNamedForm(c) == c.t = "object" /\ Len(c.kv) = 1 /\ c.kv[1][1] \in Range(operators)

IsOpValueForm(c) ==
    /\ c.t = "object" /\ OperatorKeys(c) = {} /\ Has(c, "op")
    /\ Get(c, "op").t = "string" /\ Get(c, "op").s \in Range(operators)

OperatorIn(c) == IF IsNamedForm(c) THEN c.kv[1][1] ELSE Get(c, "op").s

OperandIn(c) == IF IsNamedForm(c) THEN c.kv[1][2] ELSE Get(c, "value")

NullPred(fn) ==
    [fn |-> fn, alias |-> Top.alias, column |-> ColumnNameOf(CurKey), op |-> "",
     val |-> Undef]

\* C8: for a primitive field, null adds `is null`, undefined adds nothing,
\* an operator clause with a null or undefined operand adds `is null` for
\* eq and `is not null` for ne, and throws, adding nothing, for any other
\* operator.
C8_PrimitiveNullHandling ==
    [][(Running /\ KnownPrimitive /\ Filtered) =>
          /\ FilterClause = Null =>
                 status' = "clauses" /\ query'.wheres = Append(query.wheres, NullPred("whereNull"))
          /\ FilterClause = Undef =>
                 status' = "clauses" /\ query'.wheres = query.wheres
          /\ ((IsNamedForm(FilterClause) \/ IsOpValueForm(FilterClause))
                 /\ NullOperand(OperandIn(FilterClause))) =>
                 CASE OperatorIn(FilterClause) = "eq" ->
                          /\ status' = "clauses"
                          /\ query'.wheres = Append(query.wheres, NullPred("whereNull"))
                   [] OperatorIn(FilterClause) = "ne" ->
                          /\ status' = "clauses"
                          /\ query'.wheres = Append(query.wheres, NullPred("whereNotNull"))
                   [] OTHER ->
                          /\ status' = "failed"
                          /\ error' = "Only ne is supported when the value is undefined or null"
                          /\ query' = query]_vars

\* { eq: null } was compiled to `is null`
C8_Witness ==
    /\ last.kind = "prim"
    /\ last.clause = Obj1("eq", Null)
    /\ Len(query.wheres) = 1
    /\ query.wheres[1].fn = "whereNull"

\* C9: a primitive clause that is an object with exactly one operator key is
\* handed to addPrimitiveOperator with that key and the value under it,
\* wherever the key stands and whatever the other keys; no predicate comes
\* from a key that is not an operator.
C9_DispatchByOperatorKey ==
    (/\ last.kind = "prim"
     /\ last.hasClause
     /\ last.clause.t = "object"
     /\ Cardinality(OperatorKeys(last.clause)) = 1) =>
        LET k == CHOOSE k \in OperatorKeys(last.clause) : TRUE
        IN  /\ last.out.op = last.clause.kv[k][1]
            /\ last.out.value = last.clause.kv[k][2]

RECURSIVE Depth(_)
\* how deep the objects of a specification nest
Depth(v) ==
    IF v.t # "object" THEN 0
    ELSE IF v.kv = << >> THEN 1
    ELSE 1 + (CHOOSE d \in {Depth(v.kv[k][2]) : k \in 1..Len(v.kv)} :
                 \A k \in 1..Len(v.kv) : Depth(v.kv[k][2]) <= d)

Max(a, b) == IF a >= b THEN a ELSE b

Values(v) == IF v.t = "object" THEN {v.kv[k][2] : k \in 1..Len(v.kv)} ELSE {}

\* every activation but the root was handed values of its caller's where and orderBy
StrictSubObjects ==
    \A n \in 2..Len(stack) :
        /\ stack[n].where \in Values(stack[n - 1].where) \cup {Undef}
        /\ stack[n].orderBy \in Values(stack[n - 1].orderBy) \cup {Undef}
        /\ Max(Depth(stack[n].where), Depth(stack[n].orderBy))
               < Max(Depth(stack[n - 1].where), Depth(stack[n - 1].orderBy))

\* the recursive calls in progress are no more than the specification nests
DepthBounded ==
    /\ Len(stack) - 1 <= Max(Depth(filter.where), Depth(filter.orderBy))
    /\ Len(stack) < MaxStack

Terminated == status \in {"done", "failed"}

\* C10: buildQuery ends, by a return or an error, on every specification,
\* the self-referencing mentor key included: each recursive call is handed
\* strict sub-objects of its caller's where and orderBy, and the calls in
\* progress never outnumber the nesting of the specification.
C10_Terminates == [](StrictSubObjects /\ DepthBounded) /\ <>Terminated

\* the deepest mentor chain, compiled down to its leaf
C10_Witness ==
    /\ status = "clauses"
    /\ Len(stack) >= MaxChain + 1
    /\ Top.meta = "Author"
    /\ \A n \in 1..Len(stack) : stack[n].meta = "Author"

====
